---- MODULE Spec2Model ----
(***************************************************************************)
(* A model of vies.py: bulk validation of French SIREN numbers against the *)
(* VIES REST API.  The model covers computeVAT, calculate_backoff_delay,   *)
(* RateLimiter, hasValidVat's retry loop, processFile and its input file.  *)
(*                                                                         *)
(* The clock counts whole seconds, backoff delays are exact fractions of   *)
(* a millisecond.  Python values are written as                            *)
(* strings: "True", "False" and "None" are the three values has_vat is     *)
(* documented to take; Absent marks a key a JSON object does not hold.     *)
(***************************************************************************)
EXTENDS Integers, Sequences, FiniteSets, TLC

(* ------------------------------ bounds ------------------------------- *)
VariedDigits == 2
JitterSteps == 2
MaxLines == 2
MaxSetBack == 1
MaxWorkers == 2
MaxBatch == 2
MaxRetries == 2
MaxRequests == 4
MaxTicks == 1
StartTime == 3

(* ------------------------- Python / JSON values ---------------------- *)
Absent == "<absent>"
PyNone == "None"
PyTrue == "True"
PyFalse == "False"

\* dict.get(key, default): the default only when the key is missing
DictGet(d, key, default) == IF d[key] = Absent THEN default ELSE d[key]

\* truth value of the JSON values the model draws
Truthy(v) == v \notin {PyNone, PyFalse, ""}

Max(a, b) == IF a >= b THEN a ELSE b

Min(a, b) == IF a <= b THEN a ELSE b

RECURSIVE Pow(_, _)
\* b ** n for an integer n >= 0
Pow(b, n) == IF n = 0 THEN 1 ELSE b * Pow(b, n - 1)

(* ------------------------------ computeVAT --------------------------- *)
AsciiDigits == <<"0", "1", "2", "3", "4", "5", "6", "7", "8", "9">>

\* Characters outside ASCII are written by their code point.  ARABIC-INDIC
\* DIGIT ZERO..NINE are decimal digits (category Nd): str.isdigit() is true of
\* them and int() reads them.
ArabicIndicDigits == <<"U+0660", "U+0661", "U+0662", "U+0663", "U+0664",
                       "U+0665", "U+0666", "U+0667", "U+0668", "U+0669">>

\* SUPERSCRIPT TWO and THREE are digits but not decimal digits: str.isdigit()
\* is true of them and int() rejects them.
SuperscriptDigits == {"U+00B2", "U+00B3"}

\* the characters int() reads as a decimal digit
IsDecimalChar(c) ==
    \E k \in 1..10 : AsciiDigits[k] = c \/ ArabicIndicDigits[k] = c

DigitValue(c) ==
    (CHOOSE k \in 1..10 : AsciiDigits[k] = c \/ ArabicIndicDigits[k] = c) - 1

IsDigitChar(c) == IsDecimalChar(c) \/ c \in SuperscriptDigits

\* str.isdigit(): non-empty and every character a digit
isdigit(s) == Len(s) > 0 /\ \A k \in 1..Len(s) : IsDigitChar(s[k])

RECURSIVE int(_)
int(s) == IF Len(s) = 0 THEN 0
          ELSE 10 * int(SubSeq(s, 1, Len(s) - 1)) + DigitValue(s[Len(s)])

\* the key written without padding
FormatD(n) == IF n < 10 THEN <<AsciiDigits[n + 1]>>
              ELSE <<AsciiDigits[(n \div 10) + 1], AsciiDigits[(n % 10) + 1]>>

\* f"{cle:02d}"
Format02d(n) == IF n < 10 THEN <<"0", AsciiDigits[n + 1]>>
                ELSE <<AsciiDigits[(n \div 10) + 1], AsciiDigits[(n % 10) + 1]>>

ValueError == <<"ValueError">>

\* the key without the constant 12
computeVATNoOffset(siren) ==
    IF ~isdigit(siren) \/ Len(siren) # 9 THEN ValueError
    ELSE IF \E k \in 1..Len(siren) : ~IsDecimalChar(siren[k]) THEN ValueError
    ELSE LET siren_int == int(siren)
             cle == (3 * (siren_int % 97)) % 97
         IN  <<"F", "R">> \o Format02d(cle) \o siren

\* int(siren) raises ValueError on a character that is no decimal digit
computeVAT(siren) ==
    IF ~isdigit(siren) \/ Len(siren) # 9 THEN ValueError
    ELSE IF \E k \in 1..Len(siren) : ~IsDecimalChar(siren[k]) THEN ValueError
    ELSE LET siren_int == int(siren)
             cle == (12 + 3 * (siren_int % 97)) % 97
         IN  <<"F", "R">> \o Format02d(cle) \o siren

\* hasValidVat's base_url, taken as one character
base_url == <<"https://ec.europa.eu/taxation_customs/vies/rest-api/ms/FR/vat/">>

(* ------------------------------ inputs ------------------------------- *)
Orange == <<"3", "8", "0", "1", "2", "9", "8", "6", "6">>
Google == <<"4", "4", "3", "0", "6", "1", "8", "4", "1">>
Malformed == <<"1", "2", "3", "4", "5", "6", "7", "8", "A">>

WellFormedIds == {Orange, Google}
Identifiers == {Orange, Malformed}

DigitSet == {AsciiDigits[k] : k \in 1..10}

\* strings of 9 digits: the two examples with their last digits varied
NineDigitIds ==
    {SubSeq(base, 1, 9 - VariedDigits) \o t :
        base \in WellFormedIds, t \in [1..VariedDigits -> DigitSet]}

\* strings that are not 9 ASCII digits: too short, too long, a letter, a
\* space, digits of another script, a superscript digit (the empty string is
\* never read from a file)
OtherIds ==
    { <<"1", "2", "3", "4", "5", "6", "7", "8">>,
      <<"1", "2", "3", "4", "5", "6", "7", "8", "9", "0">>,
      Malformed,
      <<"1", "2", "3", "4", " ", "6", "7", "8", "9">>,
      <<"U+0661", "U+0662", "U+0663", "U+0664", "U+0665", "U+0666", "U+0667",
        "U+0668", "U+0669">>,
      <<"3", "8", "0", "1", "2", "9", "8", "6", "U+0666">>,
      <<"1", "2", "3", "4", "5", "6", "7", "8", "U+00B2">> }

DeriveInputs == NineDigitIds \cup OtherIds

(* ------------------------------ the input file ---------------------- *)
Whitespace == {" ", "\t", "\n", "\r"}

RECURSIVE lstrip(_)
lstrip(s) == IF s # <<>> /\ Head(s) \in Whitespace THEN lstrip(Tail(s)) ELSE s

RECURSIVE rstrip(_)
rstrip(s) == IF s # <<>> /\ s[Len(s)] \in Whitespace
             THEN rstrip(SubSeq(s, 1, Len(s) - 1)) ELSE s

\* str.strip()
strip(s) == rstrip(lstrip(s))

\* str.startswith(c) for one character c
startswith(s, c) == s # <<>> /\ Head(s) = c

RECURSIVE ReadSirensRaw(_)
\* the comment test made on the line as it is read
ReadSirensRaw(ls) ==
    IF ls = <<>> THEN <<>>
    ELSE (IF strip(Head(ls)) # <<>> /\ ~startswith(Head(ls), "#")
          THEN <<strip(Head(ls))>> ELSE <<>>) \o ReadSirensRaw(Tail(ls))

RECURSIVE ReadSirens(_)
\* [line.strip() for line in f if line.strip() and not line.strip().startswith('#')]
ReadSirens(ls) ==
    IF ls = <<>> THEN <<>>
    ELSE (IF strip(Head(ls)) # <<>> /\ ~startswith(strip(Head(ls)), "#")
          THEN <<strip(Head(ls))>> ELSE <<>>) \o ReadSirens(Tail(ls))

\* a file with one identifier per line
FileOf(batch) == [k \in DOMAIN batch |-> batch[k] \o <<"\n">>]

\* the lines a file can hold: blank, spaces only, comments, an indented
\* comment, identifiers bare and surrounded by spaces, a '#' inside a token
InputLines ==
    { <<"\n">>,
      <<" ", "\t", "\n">>,
      <<"#", " ", "c", "\n">>,
      <<" ", " ", "#", "c", "\n">>,
      <<"#">> \o Orange \o <<"\n">>,
      Orange \o <<"\n">>,
      <<" ">> \o Orange \o <<" ", "\n">>,
      <<"3", "8", "#", "\n">> }

SeqsUpTo(S, n) == UNION {[1..k -> S] : k \in 0..n}

(* ----------------------- the remote endpoint ------------------------- *)
\* What one requests.get() can produce: an exception, or a response with a
\* status code and a body (a JSON object, some other JSON value, or no JSON).
NoBody == [error |-> Absent, userError |-> Absent, valid |-> Absent, isValid |-> Absent]

Raises(e) == [exc |-> e, status_code |-> 0, json |-> "none"] @@ NoBody

Answer(status, j, body) == [exc |-> "none", status_code |-> status, json |-> j] @@ body

NoResponse == Raises("<no response>")

ErrorValues == {Absent, PyNone, "", "VALID", "INVALID", "MS_UNAVAILABLE"}
UserErrorValues == {Absent, "", "VALID", "MS_UNAVAILABLE"}
ValidValues == {Absent, PyNone, PyTrue, PyFalse, "maybe"}
IsValidValues == {Absent, PyTrue, PyFalse}
StatusCodes == {200, 503}

Bodies == [error : ErrorValues, userError : UserErrorValues,
           valid : ValidValues, isValid : IsValidValues]

FullEndpoint ==
    {Raises("ProxyError"), Raises("ConnectionError")}
    \cup {Answer(s, j, NoBody) : s \in StatusCodes, j \in {"list", "unparseable"}}
    \cup {Answer(s, "dict", b) : s \in StatusCodes, b \in Bodies}

\* one outcome of each class
SmallEndpoint ==
    { Raises("ProxyError"), Raises("ConnectionError"),
      Answer(200, "list", NoBody),
      Answer(503, "dict", NoBody),
      Answer(200, "dict", [NoBody EXCEPT !.isValid = PyTrue, !.userError = "VALID"]),
      Answer(200, "dict", [NoBody EXCEPT !.valid = "maybe"]) }

\* an answer and a transient failure
LimiterEndpoint ==
    { Answer(503, "dict", NoBody),
      Answer(200, "dict", [NoBody EXCEPT !.isValid = PyTrue, !.userError = "VALID"]) }

\* an endpoint that always answers
AnswerEndpoint ==
    { Answer(200, "dict", [NoBody EXCEPT !.isValid = PyTrue, !.userError = "VALID"]) }

\* the outcomes of the endpoint named e
Outcomes(e) ==
    IF e = "full" THEN FullEndpoint
    ELSE IF e = "small" THEN SmallEndpoint
    ELSE IF e = "answer" THEN AnswerEndpoint
    ELSE LimiterEndpoint

VARIABLES
    max_retries,   \* config["max_retries"]
    workers,       \* processFile's workers argument
    endpoint,      \* which outcomes the remote endpoint can produce in this run
    lines,         \* the input file, line by line
    sirens,        \* the identifiers read from the input file
    min_interval,  \* RateLimiter.min_interval
    initial_delay,       \* config["initial_delay"], in milliseconds
    backoff_multiplier,  \* config["backoff_multiplier"], a fraction [num, den]
    max_delay,           \* config["max_delay"], in milliseconds
    use_proxy,           \* config["use_proxy"]
    proxy_env,           \* the environment: PROXY_USER, PROXY_PWD, PROXY_HOST
    cached_proxies,      \* the module's _cached_proxies
    proxies_initialized, \* the module's _proxies_initialized
    last_call,     \* RateLimiter.last_call
    lock,          \* RateLimiter.lock: the worker holding it, or 0
    clock,         \* time.time()
    mpc,           \* processFile's position
    rows,          \* the output file, one entry per line
    resultats,     \* processFile's resultats
    total,         \* processFile's total
    stats,         \* processFile's valid / invalid / failed
    queue,         \* the executor's work queue (indices into sirens)
    fstate,        \* per future: "pending", "running", "done", "raised"
    fresult,       \* per future: its result
    consumed,      \* the futures as_completed has yielded
    wpc,           \* per worker thread: its position
    wtask,         \* per worker thread: the future it runs
    url,           \* per worker thread: hasValidVat's url
    attempt,       \* per worker thread: hasValidVat's loop variable
    now,           \* per worker thread: wait()'s now
    sleep_time,    \* per worker thread: wait()'s sleep_time
    response,      \* per worker thread: the outcome of its last request
    cause,         \* per worker thread: the handler that asked for the backoff
    delay,         \* per worker thread: the delay it sleeps, a fraction [num, den]
    requests,      \* per future: HTTP requests issued
    sleeps,        \* per future: backoff sleeps performed
    failures,      \* per future: attempts that ended in a failure
    lastIssue,     \* the last HTTP request issued behind the limiter: [at, by]
    slots          \* the values written to last_call, in order

vars == <<max_retries, workers, endpoint, lines, sirens, min_interval, initial_delay,
          backoff_multiplier, max_delay, use_proxy, proxy_env, cached_proxies,
          proxies_initialized, delay, last_call, lock,
          clock, mpc, rows, resultats, total, stats, queue, fstate, fresult,
          consumed, wpc, wtask, url, attempt, now, sleep_time, response, cause,
          requests, sleeps, failures, lastIssue, slots>>

settings == <<max_retries, workers, endpoint, lines, min_interval, initial_delay,
              backoff_multiplier, max_delay, use_proxy, proxy_env>>
cacheVars == <<cached_proxies, proxies_initialized>>
confVars == <<settings, sirens>>
mainVars == <<mpc, rows, resultats, total, stats, consumed>>
limiterVars == <<last_call, lock>>
waitVars == <<now, sleep_time>>
countVars == <<requests, sleeps, failures>>
histVars == <<lastIssue, slots>>

Workers == 1..workers
Tasks == 1..Len(sirens)


(* ------------------------- calculate_backoff_delay ------------------- *)
\* Delays are exact fractions of a millisecond, [num, den] with den > 0.
THROTTLE_INITIAL_DELAY == 200
THROTTLE_MAX_DELAY == 30000
THROTTLE_MULTIPLIER == [num |-> 3, den |-> 2]

\* the floor of the result, 0.1 second
MinDelay == 100

NoDelay == [num |-> 0, den |-> 1]

\* what random.uniform(-jitter_range, jitter_range) can return, as the
\* fraction u / JitterSteps of jitter_range
Uniform == (-JitterSteps)..JitterSteps

\* the delay without its ceiling max_delay
calculate_backoff_delay_uncapped(a, u) ==
    LET den == Pow(backoff_multiplier.den, a)
        base_delay == initial_delay * Pow(backoff_multiplier.num, a)
        unit == den * 10 * JitterSteps
        jittered_delay == base_delay * (10 * JitterSteps + 3 * u)
    IN  [num |-> Max(MinDelay * unit, jittered_delay), den |-> unit]

\* the capped delay with the power of the multiplier dividing initial_delay
capped_delay_divided(a) ==
    LET den == Pow(backoff_multiplier.num, a)
        base_delay == initial_delay * Pow(backoff_multiplier.den, a)
    IN  [num |-> Min(base_delay, max_delay * den), den |-> den]

\* capped_delay = min(initial_delay * multiplier ** attempt, max_delay), the
\* centre of the jitter range, over the denominator of multiplier ** attempt
capped_delay(a) ==
    LET den == Pow(backoff_multiplier.den, a)
        base_delay == initial_delay * Pow(backoff_multiplier.num, a)
    IN  [num |-> Min(base_delay, max_delay * den), den |-> den]

\* calculate_backoff_delay(attempt) when random.uniform draws u.  All the
\* quantities are kept over the common denominator unit.
calculate_backoff_delay(a, u) ==
    LET den == capped_delay(a).den
        centre == capped_delay(a).num
        unit == den * 10 * JitterSteps
        \* capped_delay + capped_delay * 0.3 * u / JitterSteps
        jittered_delay == centre * (10 * JitterSteps + 3 * u)
    IN  [num |-> Max(MinDelay * unit, jittered_delay), den |-> unit]

(* ------------------------------ the proxy ---------------------------- *)
\* os.getenv of the three variables: unset, empty, or a value
NoProxyEnv == [user |-> PyNone, pwd |-> PyNone, host |-> PyNone]

ProxyEnvs ==
    [user : {PyNone, "", "user"}, pwd : {PyNone, "", "pass"},
     host : {PyNone, "", "proxy.example.com:8080", "10.0.0.1:3128"}]

\* a proxy configuration is a sequence of (scheme, URL) pairs; None is the
\* empty one
NoProxies == <<>>

\* get_proxies(): None when the proxy is off or a variable is unset or empty
get_proxies ==
    IF ~use_proxy THEN NoProxies
    ELSE IF \E v \in {proxy_env.user, proxy_env.pwd, proxy_env.host} : v \in {PyNone, ""}
         THEN NoProxies
         ELSE LET proxy_url == <<"http://", proxy_env.user, ":", proxy_env.pwd, "@",
                                 proxy_env.host>>
              IN  <<<<"http", proxy_url>>, <<"https", proxy_url>>>>

\* get_proxies_cached(): the value it returns is cached_proxies'
get_proxies_cached ==
    /\ cached_proxies' = IF proxies_initialized THEN cached_proxies ELSE get_proxies
    /\ proxies_initialized' = TRUE

(* ------------------------------ RateLimiter -------------------------- *)
\* RateLimiter.__init__: 60.0 / calls_per_minute, 0.0 when disabled
MinInterval(calls_per_minute) ==
    IF calls_per_minute <= 0 THEN 0 ELSE 60 \div calls_per_minute

RateLimits == {0, 30, 60}

\* wait(): sleep_time = max(0, next_allowed - now)
SleepTime(t, last) == LET next_allowed == last + min_interval
                      IN  Max(0, next_allowed - t)

\* the slot taken without the interval: the later of the call and last_call
ReservedSlotNoInterval(t, last) == Max(t, last)

\* the slot taken to be the time of the call
ReservedSlotNow(t, last) == t

\* wait(): the slot written to last_call
ReservedSlot(t, last) == t + SleepTime(t, last)

(* ------------------------- hasValidVat, one try ---------------------- *)
\* error = data.get("error", data.get("userError", None))
ErrorIndicator(r) == DictGet(r, "error", DictGet(r, "userError", PyNone))

\* the retry condition without its test of the status code
IsTransientErrorOnly(r) ==
    LET error == ErrorIndicator(r)
    IN  Truthy(error) /\ error # "VALID" /\ error # "INVALID"

\* the retry condition on a parsed response
IsTransient(r) ==
    LET error == ErrorIndicator(r)
    IN  (Truthy(error) /\ error # "VALID" /\ error # "INVALID")
        \/ r.status_code # 200

\* the two field names looked up in the other order
ValidityIndicatorSwapped(r) == DictGet(r, "isValid", DictGet(r, "valid", PyNone))

\* isValid = data.get("valid", data.get("isValid", None))
ValidityIndicator(r) == DictGet(r, "valid", DictGet(r, "isValid", PyNone))

\* the exception the try body raises on outcome r, "none" if it raises none
Raised(r) ==
    IF r.exc # "none" THEN r.exc
    ELSE IF r.json = "unparseable" THEN "JSONDecodeError"
    ELSE IF r.json # "dict" THEN "AttributeError"
    ELSE "none"

\* without the last clause, except Exception
HandlerNoCatchAll(e) ==
    IF e = "ProxyError" THEN "ProxyError"
    ELSE IF e \in {"ConnectionError", "JSONDecodeError"} THEN "RequestException"
    ELSE "uncaught"

\* the except clause that catches exception e
Handler(e) ==
    IF e = "ProxyError" THEN "ProxyError"
    ELSE IF e \in {"ConnectionError", "JSONDecodeError"} THEN "RequestException"
    ELSE "Exception"

\* a proxy error handled by raising it again
VerdictProxyRaises(r) ==
    IF Raised(r) = "ProxyError" THEN "uncaught"
    ELSE IF Raised(r) # "none" THEN Handler(Raised(r))
    ELSE IF IsTransient(r) THEN "api"
    ELSE "return"

\* what one try ends in: "return", or the branch that sleeps and continues
Verdict(r) ==
    IF Raised(r) # "none" THEN Handler(Raised(r))
    ELSE IF IsTransient(r) THEN "api"
    ELSE "return"

\* one try too many
InRangeInclusive(a, max_attempts) == 0 <= a /\ a <= max_attempts

\* range(max_attempts)
InRange(a, max_attempts) == 0 <= a /\ a < max_attempts

(* ------------------------------ processFile -------------------------- *)
Header == <<"siren", "has_vat">>

\* f'{r["siren"]};{r["has_vat"]}'
Row(r) == <<r.siren, r.has_vat>>

Outcome(siren, has_vat) == [siren |-> siren, has_vat |-> has_vat]

RECURSIVE CountIs(_, _)
\* sum(1 for r in resultats if r["has_vat"] is v)
CountIs(rs, v) ==
    IF Len(rs) = 0 THEN 0
    ELSE (IF rs[Len(rs)].has_vat = v THEN 1 ELSE 0)
         + CountIs(SubSeq(rs, 1, Len(rs) - 1), v)

NoStats == [valid |-> 0, invalid |-> 0, failed |-> 0]

(* ------------------------------ initial states ----------------------- *)
\* main() has set config and built the limiter; processFile has not started
InitRun(W, batches, retries, limits, remote, initials, multipliers, maxima, proxy_uses, environments) ==
    /\ workers \in W
    /\ use_proxy \in proxy_uses
    /\ proxy_env \in environments
    /\ cached_proxies = NoProxies
    /\ proxies_initialized = FALSE
    /\ initial_delay \in initials
    /\ backoff_multiplier \in multipliers
    /\ max_delay \in maxima
    /\ delay = [w \in Workers |-> NoDelay]
    /\ lines \in batches
    /\ sirens = <<>>
    /\ max_retries \in retries
    /\ Len(ReadSirens(lines)) * max_retries <= MaxRequests
    /\ \E rate_limit \in limits : min_interval = MinInterval(rate_limit)
    /\ endpoint = remote
    /\ last_call = 0
    /\ lock = 0
    /\ clock = StartTime
    /\ mpc = "start"
    /\ rows = <<>>
    /\ resultats = <<>>
    /\ total = 0
    /\ stats = NoStats
    /\ queue = <<>>
    /\ fstate = <<>>
    /\ fresult = <<>>
    /\ consumed = {}
    /\ wpc = [w \in Workers |-> "idle"]
    /\ wtask = [w \in Workers |-> 0]
    /\ url = [w \in Workers |-> <<>>]
    /\ attempt = [w \in Workers |-> 0]
    /\ now = [w \in Workers |-> 0]
    /\ sleep_time = [w \in Workers |-> 0]
    /\ response = [w \in Workers |-> NoResponse]
    /\ cause = [w \in Workers |-> "none"]
    /\ requests = <<>>
    /\ sleeps = <<>>
    /\ failures = <<>>
    /\ lastIssue = [at |-> 0, by |-> 0]
    /\ slots = <<>>

\* the same with the proxy on and no proxy in the environment
InitConfigured(W, batches, retries, limits, remote, initials, multipliers, maxima) ==
    InitRun(W, batches, retries, limits, remote, initials, multipliers, maxima,
            {TRUE}, {NoProxyEnv})

\* the same with the default backoff configuration
InitWith(W, batches, retries, limits, remote) ==
    InitConfigured(W, batches, retries, limits, remote, {THROTTLE_INITIAL_DELAY},
                   {THROTTLE_MULTIPLIER}, {THROTTLE_MAX_DELAY})

\* batches of every shape against an endpoint with one outcome of each class
Init ==
    \/ InitWith(1..MaxWorkers, {FileOf(b) : b \in SeqsUpTo(Identifiers, MaxBatch)}, 0..MaxRetries,
                {-60, 0}, "small")
    \/ InitWith({1}, {FileOf(<<Orange>>)}, {2}, {60}, "small")

\* one identifier, one thread, every outcome the endpoint can produce
InitClient == InitWith({1}, {FileOf(<<id>>) : id \in Identifiers}, -1..MaxRetries,
                       {0, 60}, "full")

\* threads competing for the enabled limiter; with --initial-delay 0 every
\* backoff delay is the floor of 0.1 second
InitLimiter ==
    InitConfigured(1..MaxWorkers, {FileOf(b) : b \in SeqsUpTo({Orange}, MaxBatch)}, 1..MaxRetries,
                   RateLimits \ {0}, "limiter", {0}, {THROTTLE_MULTIPLIER},
                   {THROTTLE_MAX_DELAY})

\* one or two identifiers, one attempt each, threads competing for the
\* enabled limiter under a clock that can be set back
InitSetBack ==
    InitWith(1..MaxWorkers, {FileOf(<<Orange>>), FileOf(<<Orange, Orange>>)}, {1},
             RateLimits \ {0}, "answer")

\* one identifier, alone or twice, and no attempt: computeVAT on every input
InitDerive ==
    InitWith(1..MaxWorkers,
             {FileOf(<<id>>) : id \in DeriveInputs}
                 \cup {FileOf(<<id, id>>) : id \in DeriveInputs},
             {0}, {0}, "limiter")

\* batches of every shape, with and without the limiter, against an endpoint
\* that answers or fails
InitFair ==
    InitConfigured(1..MaxWorkers, {FileOf(b) : b \in SeqsUpTo(Identifiers, MaxBatch)},
                   {1}, {0, 60}, "limiter", {0}, {THROTTLE_MULTIPLIER},
                   {THROTTLE_MAX_DELAY})

\* files of every kind of line, read and submitted; no attempt is made
InitInput == InitWith({1}, SeqsUpTo(InputLines, MaxLines), {0}, {0}, "limiter")

\* --initial-delay, --backoff-multiplier and --max-delay: the defaults, a
\* delay above a ceiling, no delay or a negative one, a ceiling the second
\* attempt reaches, and a ceiling below the floor of 0.1 second
InitialDelays == {THROTTLE_INITIAL_DELAY, 400, 0, -200}
Multipliers == {THROTTLE_MULTIPLIER, [num |-> 2, den |-> 1], [num |-> 1, den |-> 2]}
MaxDelays == {THROTTLE_MAX_DELAY, 300, 50}

\* one identifier that fails or is answered, under every backoff configuration
InitBackoff ==
    InitConfigured({1}, {FileOf(<<Orange>>)}, 1..MaxRetries, {0}, "limiter",
                   InitialDelays, Multipliers, MaxDelays)

(* ------------------------------ processFile -------------------------- *)
Finished(i) == fstate[i] \in {"done", "raised"}

\* the header row is written, the input is read, every identifier is submitted
Submit ==
    /\ mpc = "start"
    /\ rows' = <<Header>>
    /\ sirens' = ReadSirens(lines)
    /\ queue' = [k \in 1..Len(sirens') |-> k]
    /\ fstate' = [k \in 1..Len(sirens') |-> "pending"]
    /\ fresult' = [k \in 1..Len(sirens') |-> Outcome(<<>>, PyNone)]
    /\ requests' = [k \in 1..Len(sirens') |-> 0]
    /\ sleeps' = [k \in 1..Len(sirens') |-> 0]
    /\ failures' = [k \in 1..Len(sirens') |-> 0]
    /\ mpc' = "collect"
    /\ get_proxies_cached
    /\ UNCHANGED <<settings, limiterVars, clock, resultats, total, stats, consumed,
                   wpc, wtask, url, attempt, waitVars, response, cause, delay,
                   histVars>>

\* one turn of the as_completed loop: future.result() returns or raises
Collect(i) ==
    /\ mpc = "collect"
    /\ i \notin consumed
    /\ Finished(i)
    /\ consumed' = consumed \cup {i}
    /\ total' = total + 1
    /\ IF fstate[i] = "raised"
       THEN /\ mpc' = "unwinding"
            /\ UNCHANGED <<rows, resultats>>
       ELSE /\ rows' = Append(rows, Row(fresult[i]))
            /\ resultats' = Append(resultats, fresult[i])
            /\ mpc' = mpc
    /\ UNCHANGED <<confVars, cacheVars, limiterVars, clock, stats, queue, fstate, fresult,
                   wpc, wtask, url, attempt, waitVars, response, cause, delay, countVars,
                   histVars>>

\* the executor's shutdown(wait=True) has returned and the exception leaves
\* processFile
Abort ==
    /\ mpc = "unwinding"
    /\ \A i \in Tasks : Finished(i)
    /\ mpc' = "crashed"
    /\ UNCHANGED <<confVars, cacheVars, limiterVars, clock, rows, resultats, total, stats,
                   queue, fstate, fresult, consumed, wpc, wtask, url, attempt,
                   waitVars, response, cause, delay, countVars, histVars>>

\* the loop is over: the statistics
Finish ==
    /\ mpc = "collect"
    /\ consumed = Tasks
    /\ stats' = [valid |-> CountIs(resultats, PyTrue),
                 invalid |-> CountIs(resultats, PyFalse),
                 failed |-> CountIs(resultats, PyNone)]
    /\ mpc' = "done"
    /\ UNCHANGED <<confVars, cacheVars, limiterVars, clock, rows, resultats, total, queue,
                   fstate, fresult, consumed, wpc, wtask, url, attempt, waitVars,
                   response, cause, delay, countVars, histVars>>

(* ------------------------------ pool threads ------------------------- *)
\* a pool thread that calls processID and leaves the work item on the queue
TakeTaskKeepsItem(w) ==
    /\ wpc[w] = "idle"
    /\ \A v \in 1..(w - 1) : wpc[v] # "idle"
    /\ queue # <<>>
    /\ wtask' = [wtask EXCEPT ![w] = Head(queue)]
    /\ queue' = queue
    /\ fstate' = [fstate EXCEPT ![Head(queue)] = "running"]
    /\ wpc' = [wpc EXCEPT ![w] = "derive"]
    /\ attempt' = [attempt EXCEPT ![w] = 0]
    /\ response' = [response EXCEPT ![w] = NoResponse]
    /\ cause' = [cause EXCEPT ![w] = "none"]
    /\ url' = [url EXCEPT ![w] = <<>>]
    /\ UNCHANGED <<confVars, cacheVars, limiterVars, clock, mainVars, fresult, waitVars,
                   delay, countVars, histVars>>

\* a pool thread takes the next work item and calls processID.  The idle
\* threads are interchangeable: the lowest-numbered one takes the item.
TakeTask(w) ==
    /\ wpc[w] = "idle"
    /\ \A v \in 1..(w - 1) : wpc[v] # "idle"
    /\ queue # <<>>
    /\ wtask' = [wtask EXCEPT ![w] = Head(queue)]
    /\ queue' = Tail(queue)
    /\ fstate' = [fstate EXCEPT ![Head(queue)] = "running"]
    /\ wpc' = [wpc EXCEPT ![w] = "derive"]
    /\ attempt' = [attempt EXCEPT ![w] = 0]
    /\ response' = [response EXCEPT ![w] = NoResponse]
    /\ cause' = [cause EXCEPT ![w] = "none"]
    /\ url' = [url EXCEPT ![w] = <<>>]
    /\ UNCHANGED <<confVars, cacheVars, limiterVars, clock, mainVars, fresult, waitVars,
                   delay, countVars, histVars>>

\* a future is set: the thread is free again
Return(w, result) ==
    /\ fstate' = [fstate EXCEPT ![wtask[w]] = "done"]
    /\ fresult' = [fresult EXCEPT ![wtask[w]] = result]
    /\ wpc' = [wpc EXCEPT ![w] = "idle"]

Raise(w) ==
    /\ fstate' = [fstate EXCEPT ![wtask[w]] = "raised"]
    /\ fresult' = fresult
    /\ wpc' = [wpc EXCEPT ![w] = "idle"]

\* hasValidVat up to its loop: the URL is built from computeVAT(siren)
Derive(w) ==
    /\ wpc[w] = "derive"
    /\ IF computeVAT(sirens[wtask[w]]) = ValueError
       THEN /\ Raise(w)
            /\ url' = url
       ELSE /\ url' = [url EXCEPT ![w] = base_url \o computeVAT(sirens[wtask[w]])]
            /\ wpc' = [wpc EXCEPT ![w] = "loop"]
            /\ UNCHANGED <<fstate, fresult>>
    /\ get_proxies_cached
    /\ UNCHANGED <<confVars, limiterVars, clock, mainVars, queue, wtask, attempt,
                   waitVars, response, cause, delay, countVars, histVars>>

\* the loop with requests.get called directly, without the limiter
LoopHeadNoWait(w) ==
    /\ wpc[w] = "loop"
    /\ IF InRange(attempt[w], max_retries)
       THEN /\ wpc' = [wpc EXCEPT ![w] = "request"]
            /\ UNCHANGED <<fstate, fresult>>
       ELSE Return(w, Outcome(sirens[wtask[w]], PyNone))
    /\ UNCHANGED <<confVars, cacheVars, limiterVars, clock, mainVars, queue, wtask, url, attempt,
                   waitVars, response, cause, delay, countVars, histVars>>

\* for attempt in range(max_attempts), and the return after the loop
LoopHead(w) ==
    /\ wpc[w] = "loop"
    /\ IF InRange(attempt[w], max_retries)
       THEN /\ wpc' = [wpc EXCEPT ![w] = "wait"]
            /\ UNCHANGED <<fstate, fresult>>
       ELSE Return(w, Outcome(sirens[wtask[w]], PyNone))
    /\ UNCHANGED <<confVars, cacheVars, limiterVars, clock, mainVars, queue, wtask, url, attempt,
                   waitVars, response, cause, delay, countVars, histVars>>

\* wait() without its early return
WaitNoEarlyReturn(w) ==
    /\ wpc[w] = "wait"
    /\ min_interval = 0
    /\ lock = 0
    /\ lock' = w
    /\ wpc' = [wpc EXCEPT ![w] = "locked"]
    /\ UNCHANGED <<confVars, cacheVars, last_call, clock, mainVars, queue, fstate, fresult,
                   wtask, url, attempt, waitVars, response, cause, delay, countVars, histVars>>

\* wait() with the limiter disabled
WaitDisabled(w) ==
    /\ wpc[w] = "wait"
    /\ min_interval = 0
    /\ wpc' = [wpc EXCEPT ![w] = "request"]
    /\ UNCHANGED <<confVars, cacheVars, limiterVars, clock, mainVars, queue, fstate, fresult,
                   wtask, url, attempt, waitVars, response, cause, delay, countVars, histVars>>

\* with self.lock
AcquireLock(w) ==
    /\ wpc[w] = "wait"
    /\ min_interval # 0
    /\ lock = 0
    /\ lock' = w
    /\ wpc' = [wpc EXCEPT ![w] = "locked"]
    /\ UNCHANGED <<confVars, cacheVars, last_call, clock, mainVars, queue, fstate, fresult,
                   wtask, url, attempt, waitVars, response, cause, delay, countVars, histVars>>

\* the sleep made inside the with block: the lock is kept
ReserveKeepsLock(w) ==
    /\ wpc[w] = "locked"
    /\ now' = [now EXCEPT ![w] = clock]
    /\ sleep_time' = [sleep_time EXCEPT ![w] = SleepTime(clock, last_call)]
    /\ last_call' = ReservedSlot(clock, last_call)
    /\ lock' = IF sleep_time'[w] > 0 THEN w ELSE 0
    /\ wpc' = [wpc EXCEPT ![w] = IF sleep_time'[w] > 0 THEN "sleeping" ELSE "request"]
    /\ UNCHANGED <<confVars, cacheVars, clock, mainVars, queue, fstate, fresult, wtask, url,
                   attempt, response, cause, delay, countVars, lastIssue>>
    /\ slots' = Append(slots, last_call')

\* the body of the with block, and the release of the lock
Reserve(w) ==
    /\ wpc[w] = "locked"
    /\ now' = [now EXCEPT ![w] = clock]
    /\ sleep_time' = [sleep_time EXCEPT ![w] = SleepTime(clock, last_call)]
    /\ last_call' = ReservedSlot(clock, last_call)
    /\ lock' = 0
    /\ wpc' = [wpc EXCEPT ![w] = IF sleep_time'[w] > 0 THEN "sleeping" ELSE "request"]
    /\ UNCHANGED <<confVars, cacheVars, clock, mainVars, queue, fstate, fresult, wtask, url,
                   attempt, response, cause, delay, countVars, lastIssue>>
    /\ slots' = Append(slots, last_call')

\* wait() without its sleep
AwakeAtOnce(w) == TRUE

\* time.sleep(sleep_time) is over: it lasts at least sleep_time
Awake(w) == clock >= now[w] + sleep_time[w]

WakeUp(w) ==
    /\ wpc[w] = "sleeping"
    /\ Awake(w)
    /\ wpc' = [wpc EXCEPT ![w] = "request"]
    /\ UNCHANGED <<confVars, cacheVars, limiterVars, clock, mainVars, queue, fstate, fresult,
                   wtask, url, attempt, waitVars, response, cause, delay, countVars, histVars>>

\* requests.get(url, ...): the endpoint answers or the transport fails
Request(w) ==
    /\ wpc[w] = "request"
    /\ \E r \in Outcomes(endpoint) : response' = [response EXCEPT ![w] = r]
    /\ requests' = [requests EXCEPT ![wtask[w]] = @ + 1]
    /\ lastIssue' = IF min_interval # 0 THEN [at |-> clock, by |-> w] ELSE lastIssue
    /\ wpc' = [wpc EXCEPT ![w] = "evaluate"]
    /\ UNCHANGED <<confVars, cacheVars, limiterVars, clock, mainVars, queue, fstate, fresult,
                   wtask, url, attempt, waitVars, cause, delay, sleeps, failures, slots>>

\* the rest of the try body and the except clauses, up to the sleep
Evaluate(w) ==
    /\ wpc[w] = "evaluate"
    /\ cause' = [cause EXCEPT ![w] = Verdict(response[w])]
    /\ IF Verdict(response[w]) = "return"
       THEN /\ Return(w, Outcome(sirens[wtask[w]], ValidityIndicator(response[w])))
            /\ UNCHANGED failures
       ELSE IF Verdict(response[w]) \in {"api", "ProxyError", "RequestException", "Exception"}
       THEN /\ failures' = [failures EXCEPT ![wtask[w]] = @ + 1]
            /\ wpc' = [wpc EXCEPT ![w] = "backoff"]
            /\ UNCHANGED <<fstate, fresult>>
       ELSE /\ Raise(w)
            /\ UNCHANGED failures
    /\ UNCHANGED <<confVars, cacheVars, limiterVars, clock, mainVars, queue, wtask, url, attempt,
                   waitVars, response, delay, requests, sleeps, histVars>>

\* the earlier version's last clause retries without sleeping
SleepsInV1(c) == IF c = "Exception" THEN 0 ELSE 1

\* the time.sleep(delay) calls of the branch that handles failure c
SleepsIn(c) == 1

\* the earlier version's fixed delay after a proxy error, 10 seconds
DelayV1(c, a, u) ==
    IF c = "ProxyError" THEN [num |-> 10000, den |-> 1]
    ELSE calculate_backoff_delay(a, u)

\* the delay the branch that handles failure c computes at attempt a
Delay(c, a, u) == calculate_backoff_delay(a, u)

\* delay = calculate_backoff_delay(attempt); time.sleep(delay) is entered
Backoff(w) ==
    /\ wpc[w] = "backoff"
    /\ \E u \in Uniform : delay' = [delay EXCEPT ![w] = Delay(cause[w], attempt[w], u)]
    /\ sleeps' = [sleeps EXCEPT ![wtask[w]] = @ + SleepsIn(cause[w])]
    /\ wpc' = [wpc EXCEPT ![w] = "asleep"]
    /\ UNCHANGED <<confVars, cacheVars, limiterVars, clock, mainVars, queue, fstate, fresult,
                   wtask, url, attempt, waitVars, response, cause, requests,
                   failures, histVars>>

\* time.sleep(delay) is over; continue
Continue(w) ==
    /\ wpc[w] = "asleep"
    /\ attempt' = [attempt EXCEPT ![w] = @ + 1]
    /\ wpc' = [wpc EXCEPT ![w] = "loop"]
    /\ response' = [response EXCEPT ![w] = NoResponse]
    /\ cause' = [cause EXCEPT ![w] = "none"]
    /\ delay' = [delay EXCEPT ![w] = NoDelay]
    /\ UNCHANGED <<confVars, cacheVars, limiterVars, clock, mainVars, queue, fstate, fresult,
                   wtask, url, waitVars, countVars, histVars>>

\* a second passes.  Only the enabled limiter reads the clock, so time is
\* followed only then; it always runs on while a thread sleeps for its slot.
Tick ==
    /\ min_interval # 0
    /\ IF \E w \in Workers : wpc[w] = "sleeping" /\ ~Awake(w)
       THEN TRUE
       ELSE clock < StartTime + MaxTicks
    /\ clock' = clock + 1
    /\ UNCHANGED <<confVars, cacheVars, limiterVars, mainVars, queue, fstate, fresult, wpc,
                   wtask, url, attempt, waitVars, response, cause, delay, countVars, histVars>>

\* time.time() is the wall clock: it can be set back
ClockSetBack ==
    /\ min_interval # 0
    /\ clock > StartTime - MaxSetBack
    /\ clock' = clock - 1
    /\ UNCHANGED <<confVars, cacheVars, limiterVars, mainVars, queue, fstate, fresult, wpc,
                   wtask, url, attempt, waitVars, response, cause, delay, countVars, histVars>>

Next ==
    \/ Submit
    \/ \E i \in Tasks : Collect(i)
    \/ Abort
    \/ Finish
    \/ \E w \in Workers : TakeTask(w)
    \/ \E w \in Workers : Derive(w)
    \/ \E w \in Workers : LoopHead(w)
    \/ \E w \in Workers : WaitDisabled(w)
    \/ \E w \in Workers : AcquireLock(w)
    \/ \E w \in Workers : Reserve(w)
    \/ \E w \in Workers : WakeUp(w)
    \/ \E w \in Workers : Request(w)
    \/ \E w \in Workers : Evaluate(w)
    \/ \E w \in Workers : Backoff(w)
    \/ \E w \in Workers : Continue(w)
    \/ Tick

Spec == Init /\ [][Next]_vars

SpecClient == InitClient /\ [][Next]_vars

\* the pool threads and the limiter alone: what processFile does with the
\* finished futures has no effect on them
NextLimiter ==
    \/ Submit
    \/ \E w \in Workers : TakeTask(w)
    \/ \E w \in Workers : Derive(w)
    \/ \E w \in Workers : LoopHead(w)
    \/ \E w \in Workers : AcquireLock(w)
    \/ \E w \in Workers : Reserve(w)
    \/ \E w \in Workers : WakeUp(w)
    \/ \E w \in Workers : Request(w)
    \/ \E w \in Workers : Evaluate(w)
    \/ \E w \in Workers : Backoff(w)
    \/ \E w \in Workers : Continue(w)
    \/ Tick

SpecLimiter == InitLimiter /\ [][NextLimiter]_vars

\* the pool threads and the limiter under a clock that is not monotonic
NextSetBack ==
    \/ Submit
    \/ \E w \in Workers : TakeTask(w)
    \/ \E w \in Workers : Derive(w)
    \/ \E w \in Workers : LoopHead(w)
    \/ \E w \in Workers : AcquireLock(w)
    \/ \E w \in Workers : Reserve(w)
    \/ \E w \in Workers : WakeUp(w)
    \/ \E w \in Workers : Request(w)
    \/ \E w \in Workers : Evaluate(w)
    \/ Tick
    \/ ClockSetBack

SpecSetBack == InitSetBack /\ [][NextSetBack]_vars

\* a run without the limiter and without malformed identifiers
NextBackoff ==
    \/ Submit
    \/ \E i \in Tasks : Collect(i)
    \/ Finish
    \/ \E w \in Workers : TakeTask(w)
    \/ \E w \in Workers : Derive(w)
    \/ \E w \in Workers : LoopHead(w)
    \/ \E w \in Workers : WaitDisabled(w)
    \/ \E w \in Workers : Request(w)
    \/ \E w \in Workers : Evaluate(w)
    \/ \E w \in Workers : Backoff(w)
    \/ \E w \in Workers : Continue(w)

SpecBackoff == InitBackoff /\ [][NextBackoff]_vars

\* the steps of processFile's own thread
MainThread ==
    \/ Submit
    \/ \E i \in Tasks : Collect(i)
    \/ Abort
    \/ Finish

\* the steps of pool thread w
Thread(w) ==
    /\ w \in Workers
    /\ \/ TakeTask(w)
       \/ Derive(w)
       \/ LoopHead(w)
       \/ WaitDisabled(w)
       \/ AcquireLock(w)
       \/ Reserve(w)
       \/ WakeUp(w)
       \/ Request(w)
       \/ Evaluate(w)
       \/ Backoff(w)
       \/ Continue(w)

\* every thread that can take a step eventually takes one, requests.get and
\* time.sleep return, and time passes
Fairness ==
    /\ WF_vars(MainThread)
    /\ \A w \in 1..MaxWorkers : WF_vars(Thread(w))
    /\ WF_vars(Tick)

SpecFair == InitFair /\ [][Next]_vars /\ Fairness

\* reading the file, and the batch without any request
NextInput ==
    \/ Submit
    \/ \E i \in Tasks : Collect(i)
    \/ Abort
    \/ Finish
    \/ \E w \in Workers : TakeTask(w)
    \/ \E w \in Workers : Derive(w)
    \/ \E w \in Workers : LoopHead(w)

SpecInput == InitInput /\ [][NextInput]_vars

(* ------------------------------ the proxy cache ---------------------- *)
\* a caller of the module calls get_proxies_cached()
GetProxiesCached ==
    /\ get_proxies_cached
    /\ UNCHANGED <<confVars, limiterVars, clock, mainVars, queue, fstate, fresult,
                   wpc, wtask, url, attempt, waitVars, response, cause, delay,
                   countVars, histVars>>

\* invalidate_proxy_cache(): the flag alone is reset
invalidate_proxy_cache ==
    /\ proxies_initialized' = FALSE
    /\ UNCHANGED <<confVars, cached_proxies, limiterVars, clock, mainVars, queue,
                   fstate, fresult, wpc, wtask, url, attempt, waitVars, response,
                   cause, delay, countVars, histVars>>

\* config["use_proxy"] = b
SetUseProxy(b) ==
    /\ use_proxy' = b
    /\ UNCHANGED <<max_retries, workers, endpoint, lines, min_interval, initial_delay,
                   backoff_multiplier, max_delay, proxy_env, sirens, cacheVars,
                   limiterVars, clock, mainVars, queue, fstate, fresult, wpc, wtask,
                   url, attempt, waitVars, response, cause, delay, countVars, histVars>>

\* the module just imported or configured by main(), under every environment
InitProxy ==
    InitRun({1}, {FileOf(<<Orange>>)}, {1}, {0}, "small", {THROTTLE_INITIAL_DELAY},
            {THROTTLE_MULTIPLIER}, {THROTTLE_MAX_DELAY}, BOOLEAN, ProxyEnvs)

\* the calls a client of the module can make on the proxy configuration
NextProxy ==
    \/ GetProxiesCached
    \/ invalidate_proxy_cache
    \/ \E b \in BOOLEAN : SetUseProxy(b)

SpecProxy == InitProxy /\ [][NextProxy]_vars

\* the calls of computeVAT alone
NextDerive ==
    \/ Submit
    \/ \E w \in Workers : TakeTask(w)
    \/ \E w \in Workers : Derive(w)
    \/ \E w \in Workers : LoopHead(w)

SpecDerive == InitDerive /\ [][NextDerive]_vars

(* ===================== the claims, batch level ====================== *)
WellFormed(i) == computeVAT(sirens[i]) # ValueError
AllWellFormed == \A i \in Tasks : WellFormed(i)

\* how often x occurs in the sequence q
Count(q, x) == Cardinality({k \in DOMAIN q : q[k] = x})

Collected == [k \in DOMAIN resultats |-> resultats[k].siren]

\* C1: for a batch of N well-formed identifiers, whatever the endpoint does
\* and however the threads interleave, processFile never fails, and when it
\* is done it has collected exactly N outcomes, as many for each identifier
\* as the batch holds copies of it.
C1_OneOutcomePerIdentifier ==
    AllWellFormed =>
        /\ mpc \notin {"unwinding", "crashed"}
        /\ mpc = "done" =>
             /\ total = Len(sirens)
             /\ Len(resultats) = Len(sirens)
             /\ \A id \in Identifiers : Count(Collected, id) = Count(sirens, id)

\* C1's case: two threads, the same identifier twice, failures on the way
C1_Witness ==
    /\ mpc = "done"
    /\ AllWellFormed
    /\ workers = 2
    /\ Len(sirens) = 2
    /\ sirens[1] = sirens[2]
    /\ failures[1] > 0
    /\ requests[2] = 2

\* C2: an identifier that is not 9 digits does not stop the batch: when
\* processFile is over, the output holds one row per identifier of the batch,
\* and the row of every malformed identifier has status None.
C2_FormatErrorContained ==
    mpc \in {"done", "crashed"} =>
        /\ Len(rows) = Len(sirens) + 1
        /\ \A i \in Tasks : ~WellFormed(i) =>
             \E k \in 2..Len(rows) : rows[k] = <<sirens[i], PyNone>>

\* C3: after the batch, the three counts add up to the number of submitted
\* identifiers.
C3_CountsSumToN ==
    mpc = "done" => stats.valid + stats.invalid + stats.failed = Len(sirens)

(* ===================== the claims, one identifier ===================== *)
\* thread w has been through the except clauses or the evaluation of its
\* last outcome
Evaluated(w) == response[w] # NoResponse /\ wpc[w] # "evaluate"

\* thread w is in the branch that retries: about to compute the backoff
\* delay, or asleep for it
Retrying(w) == wpc[w] \in {"backoff", "asleep"}

\* thread w has returned from hasValidVat on an answer
Answered(w) == wpc[w] = "idle" /\ cause[w] = "return"

\* C4: for a well-formed identifier hasValidVat never raises and returns one
\* record for that identifier; an attempt that ends in an exception (proxy,
\* transport, unparseable body, body that is no object) leads to the backoff
\* and the next attempt, and with no attempt left to has_vat = None.
C4_NeverRaises ==
    /\ \A i \in Tasks : WellFormed(i) =>
         /\ fstate[i] # "raised"
         /\ fstate[i] = "done" =>
              /\ fresult[i].siren = sirens[i]
              /\ failures[i] = requests[i] => fresult[i].has_vat = PyNone
    /\ \A w \in Workers :
         (Evaluated(w) /\ Raised(response[w]) # "none") =>
             /\ Retrying(w)
             /\ fstate[wtask[w]] = "running"

\* C4's case: the second attempt has ended in an unexpected exception
C4_Witness ==
    \E w \in Workers :
        /\ wpc[w] = "backoff"
        /\ cause[w] = "Exception"
        /\ response[w].json = "list"
        /\ attempt[w] = 1

\* C5: when every attempt of an identifier has failed, hasValidVat has issued
\* exactly max_retries requests for it and its result is None.
C5_ExhaustsExactly ==
    \A i \in Tasks :
        (fstate[i] = "done" /\ requests[i] >= 1 /\ failures[i] = requests[i]) =>
            /\ requests[i] = max_retries
            /\ fresult[i].has_vat = PyNone

C5_Witness ==
    /\ max_retries = MaxRetries
    /\ Len(sirens) = 1
    /\ fstate[1] = "done"
    /\ failures[1] = MaxRetries

\* C6: when hasValidVat returns on the answer of attempt k, it has issued k+1
\* requests and slept k times, and this stays so; an answer with a true
\* validity field on the first attempt gives True after one request and no
\* sleep.
C6_ReturnsOnFirstAnswer ==
    \A w \in Workers : Answered(w) =>
        LET i == wtask[w]
            k == attempt[w]
        IN  /\ fstate[i] = "done"
            /\ failures[i] = k
            /\ requests[i] = k + 1
            /\ sleeps[i] = k
            /\ (k = 0 /\ response[w].status_code = 200
                      /\ response[w].error = Absent
                      /\ response[w].userError = Absent
                      /\ response[w].valid = Absent
                      /\ response[w].isValid = PyTrue)
               => (fresult[i].has_vat = PyTrue /\ requests[i] = 1 /\ sleeps[i] = 0)

\* C6's case: an answer on the second attempt, after an unexpected exception
C6_Witness ==
    \E w \in Workers :
        /\ Answered(w)
        /\ attempt[w] = 1
        /\ sleeps[wtask[w]] = 1
        /\ fresult[wtask[w]].has_vat = PyTrue

\* thread w has parsed a JSON object out of its last response and has
\* classified it
Classified(w) == Evaluated(w) /\ Raised(response[w]) = "none"

\* the error indicator of a response: field "error" when the object has it,
\* field "userError" otherwise; Absent when it has neither
ErrorField(r) ==
    IF r.error # Absent THEN r.error
    ELSE IF r.userError # Absent THEN r.userError
    ELSE Absent

ValidityField(r) ==
    IF r.valid # Absent THEN r.valid
    ELSE IF r.isValid # Absent THEN r.isValid
    ELSE Absent

\* C8: hasValidVat returns on a response that is not transient with True when
\* the validity indicator is true, False when it is false, and None, without
\* another attempt, when the response has no validity indicator.
C8_StatusFromValidity ==
    \A w \in Workers : (Classified(w) /\ ~Retrying(w)) =>
        LET i == wtask[w]
            v == ValidityField(response[w])
        IN  /\ fstate[i] = "done"
            /\ v = PyTrue => fresult[i].has_vat = PyTrue
            /\ v = PyFalse => fresult[i].has_vat = PyFalse
            /\ v = Absent => (fresult[i].has_vat = PyNone /\ requests[i] = attempt[w] + 1)

\* C8's case: both fields present and different, "valid" decides
C8_Witness ==
    \E w \in Workers :
        /\ Answered(w)
        /\ response[w].valid = PyFalse
        /\ response[w].isValid = PyTrue
        /\ fresult[wtask[w]].has_vat = PyFalse

(* ===================== the claims, the limiter ======================== *)
\* C9: with the limiter enabled, any two slots written to last_call differ by
\* at least min_interval, one second at 60 calls per minute.
C9_SlotsApart ==
    min_interval > 0 =>
        /\ \A j \in DOMAIN slots : \A k \in DOMAIN slots :
             j < k => slots[k] - slots[j] >= min_interval
        /\ min_interval = MinInterval(60) =>
             \A k \in 2..Len(slots) : slots[k] - slots[k - 1] >= 1

\* C9's case: two threads in wait() together, the second sleeps for its slot
C9_Witness ==
    /\ min_interval > 0
    /\ Len(slots) >= 2
    /\ slots[2] = slots[1] + min_interval
    /\ \E w \in Workers : \E v \in Workers :
         /\ w # v
         /\ wpc[w] = "sleeping"
         /\ wpc[v] \in {"request", "sleeping"}

\* C10 as stated: a thread issues its request at least min_interval after the
\* last request of any other thread.
C10_RequestsApart ==
    [][\A w \in Workers :
         (wpc[w] = "request" /\ wpc'[w] = "evaluate" /\ lastIssue.by \notin {0, w})
             => clock - lastIssue.at >= min_interval]_vars

\* C10, amended: a thread returns from wait() no earlier than the slot it
\* reserved, and so at least min_interval after every slot reserved before
\* its own.
C10_NotBeforeSlot ==
    \A w \in Workers : (wpc[w] = "request" /\ min_interval > 0) =>
        LET mine == now[w] + sleep_time[w]
        IN  /\ clock >= mine
            /\ \A k \in DOMAIN slots :
                 slots[k] < mine => clock >= slots[k] + min_interval

\* C10's case: a thread woken after its slot, while another thread has
\* issued the last request
C10_Witness ==
    \E w \in Workers :
        /\ wpc[w] = "request"
        /\ sleep_time[w] > 0
        /\ clock > now[w] + sleep_time[w]
        /\ lastIssue.by \notin {0, w}
        /\ clock - lastIssue.at < min_interval

\* C11: a limiter built with calls_per_minute <= 0 has min_interval 0, and
\* then no thread ever holds the lock or sleeps in wait(), last_call keeps the
\* value the constructor gave it and no slot is reserved, with one thread or
\* several.
C11_DisabledIsNoOp ==
    /\ \A calls_per_minute \in -60..0 : MinInterval(calls_per_minute) = 0
    /\ min_interval = 0 =>
         /\ last_call = 0
         /\ lock = 0
         /\ slots = <<>>
         /\ \A w \in Workers :
              /\ wpc[w] \notin {"locked", "sleeping"}
              /\ sleep_time[w] = 0

\* C11's case: two threads have gone through wait() together
C11_Witness ==
    /\ min_interval = 0
    /\ workers = 2
    /\ wpc[1] = "request"
    /\ wpc[2] = "request"

(* ===================== the claims, computeVAT ======================== *)
IsNineAsciiDigits(s) == Len(s) = 9 /\ \A k \in 1..9 : s[k] \in DigitSet

AsciiValue(c) == CHOOSE d \in 0..9 : AsciiDigits[d + 1] = c

\* the integer a string of ASCII digits denotes, read from the left
RECURSIVE Horner(_, _)
Horner(s, acc) ==
    IF s = <<>> THEN acc ELSE Horner(Tail(s), 10 * acc + AsciiValue(Head(s)))

\* thread w is past the call of computeVAT for the identifier it runs
Derived(w) == wtask[w] # 0 /\ wpc[w] # "derive"

\* the key in thread w's url
Key(w) == Tail(url[w])

\* C12: for a string of 9 ASCII digits denoting n, computeVAT returns 13
\* characters: "FR", then (12 + 3 * (n mod 97)) mod 97 on two digits, then the
\* 9 digits given; two calls on the same identifier give the same key.
C12_KeyOfNineDigits ==
    \A w \in Workers :
        (Derived(w) /\ IsNineAsciiDigits(sirens[wtask[w]])) =>
            LET siren == sirens[wtask[w]]
                n == Horner(siren, 0)
                c == (12 + 3 * (n % 97)) % 97
            IN  /\ fstate[wtask[w]] # "raised"
                /\ url[w] # <<>>
                /\ Head(url[w]) = base_url[1]
                /\ Len(Key(w)) = 13
                /\ Key(w)[1] = "F"
                /\ Key(w)[2] = "R"
                /\ Key(w)[3] \in DigitSet
                /\ Key(w)[4] \in DigitSet
                /\ 10 * AsciiValue(Key(w)[3]) + AsciiValue(Key(w)[4]) = c
                /\ SubSeq(Key(w), 5, 13) = siren
                /\ \A v \in Workers :
                     (Derived(v) /\ sirens[wtask[v]] = siren) => url[v] = url[w]

\* C12's case: two calls on one identifier whose key starts with a zero
C12_Witness ==
    /\ workers = 2
    /\ Derived(1)
    /\ Derived(2)
    /\ wtask[1] # wtask[2]
    /\ sirens[1] \notin WellFormedIds
    /\ IsNineAsciiDigits(sirens[1])
    /\ url[1] # <<>>
    /\ Key(1)[3] = "0"

C14_RejectsAllButNineAsciiDigits ==
    \A w \in Workers :
        (Derived(w) /\ ~IsNineAsciiDigits(sirens[wtask[w]])) =>
            /\ fstate[wtask[w]] = "raised"
            /\ url[w] = <<>>

(* ===================== the claims, the backoff ======================= *)
\* thread w is in the time.sleep(delay) of a backoff
Asleep(w) == wpc[w] = "asleep"

\* C15 as stated: every delay is at least 0.1 second and at most 1.3 times
\* max_delay.
C15_DelayWithinMaxDelay ==
    \A w \in Workers : Asleep(w) =>
        /\ delay[w].num >= MinDelay * delay[w].den
        /\ 10 * delay[w].num <= 13 * max_delay * delay[w].den

\* C15, amended: every delay is at least 0.1 second and at most the larger of
\* 0.1 second and 1.3 times max_delay.
C15_DelayWithinFloorAndCeiling ==
    \A w \in Workers : Asleep(w) =>
        /\ delay[w].num >= MinDelay * delay[w].den
        /\ 10 * delay[w].num
             <= Max(10 * MinDelay * delay[w].den, 13 * max_delay * delay[w].den)

\* C15's case: the second attempt's delay is capped and the draw is the
\* largest one, 1.3 times max_delay
C15_Witness ==
    \E w \in Workers :
        /\ Asleep(w)
        /\ attempt[w] = 1
        /\ max_delay = 300
        /\ initial_delay * backoff_multiplier.num > max_delay * backoff_multiplier.den
        /\ 10 * delay[w].num = 13 * max_delay * delay[w].den

(* ===================== the claims, the input file ==================== *)
\* a line that is blank, or whose first character that is no white space
\* is '#'
Skippable(line) ==
    \/ \A k \in DOMAIN line : line[k] \in Whitespace
    \/ \E k \in DOMAIN line :
         /\ line[k] = "#"
         /\ \A j \in 1..(k - 1) : line[j] \in Whitespace

\* the lines of the file that are not skipped
Kept == {k \in DOMAIN lines : ~Skippable(lines[k])}

\* C16: blank lines and lines whose first non-space character is '#' are
\* not submitted: the submitted identifiers are as many as the other lines,
\* and no future, no call of computeVAT, no collected outcome and no output
\* row is for a blank or '#' token.
C16_BlankAndCommentLinesSkipped ==
    mpc # "start" =>
        /\ Len(sirens) = Cardinality(Kept)
        /\ \A i \in Tasks : ~Skippable(sirens[i])
        /\ \A w \in Workers : wtask[w] # 0 => ~Skippable(sirens[wtask[w]])
        /\ \A k \in DOMAIN resultats : ~Skippable(resultats[k].siren)
        /\ \A k \in 2..Len(rows) : ~Skippable(rows[k][1])

\* C16's case: an indented comment and an identifier; the batch is done
C16_Witness ==
    /\ mpc = "done"
    /\ Len(lines) = 2
    /\ lines[1] = <<" ", " ", "#", "c", "\n">>
    /\ Len(rows) = 2
    /\ rows[2][1] = Orange

(* ===================== the claims, termination ======================= *)
\* every thread of the pool is back to idle: none is in wait(), in a request
\* or in a backoff sleep
AllIdle == \A w \in Workers : wpc[w] = "idle"

\* Under fair scheduling every run ends: every future is set, with a result
\* or an exception, every thread has left wait(), and processFile has
\* returned or has been left by an exception.
Terminates ==
    <>(/\ mpc \in {"done", "crashed"}
       /\ \A i \in Tasks : Finished(i)
       /\ AllIdle)

\* C17: under fair scheduling every call of hasValidVat returns, no thread
\* stays in wait(), and processFile collects the last outcome and finishes.
C17_EveryCallReturns ==
    <>(/\ mpc = "done"
       /\ \A i \in Tasks : fstate[i] = "done"
       /\ consumed = Tasks
       /\ AllIdle)

(* ===================== the claims, the retry policy ================== *)
\* the first of the fields "error" and "userError" that holds a value that
\* is not empty; Absent when neither does
FirstNonEmpty(r) ==
    IF r.error \notin {Absent, PyNone, ""} THEN r.error
    ELSE IF r.userError \notin {Absent, PyNone, ""} THEN r.userError
    ELSE Absent

\* C18: the error indicator is the first non-empty value of "error" and
\* "userError": a response whose indicator, so read, is neither "VALID" nor
\* "INVALID" is retried, also when "error" is present but empty.
C18_FirstNonEmptyIndicator ==
    \A w \in Workers : Classified(w) =>
        (FirstNonEmpty(response[w]) \notin {Absent, "VALID", "INVALID"}
            => Retrying(w))

\* C19: no backoff follows the last attempt: a thread whose attempt of index
\* max_retries - 1 has failed does not sleep, and an identifier whose
\* max_retries attempts have all failed has slept max_retries - 1 times.
C19_NoSleepAfterLastAttempt ==
    /\ \A w \in Workers : (Asleep(w) /\ max_retries >= 1) => attempt[w] < max_retries - 1
    /\ \A i \in Tasks :
         (fstate[i] = "done" /\ max_retries >= 1 /\ failures[i] = max_retries)
             => sleeps[i] = max_retries - 1

\* the four branches of hasValidVat that end in a retry
FailureClasses == {"api", "ProxyError", "RequestException", "Exception"}

\* C20: whatever the class of the failure, the thread sleeps once after the
\* failed attempt, and the delay is a value of
\* calculate_backoff_delay(attempt) for the index of that attempt.
C20_OnePolicyForAllClasses ==
    \A w \in Workers :
        /\ Retrying(w) => cause[w] \in FailureClasses
        /\ Asleep(w) =>
             /\ \E u \in Uniform : delay[w] = calculate_backoff_delay(attempt[w], u)
             /\ sleeps[wtask[w]] = attempt[w] + 1
        /\ (wtask[w] # 0 /\ fstate[wtask[w]] = "running") =>
             sleeps[wtask[w]] = failures[wtask[w]] - (IF wpc[w] = "backoff" THEN 1 ELSE 0)

\* C20's case: the sleep after a proxy error at the second attempt, the
\* first attempt having failed otherwise
C20_Witness ==
    \E w \in Workers :
        /\ Asleep(w)
        /\ cause[w] = "ProxyError"
        /\ attempt[w] = 1
        /\ delay[w] = calculate_backoff_delay(1, 0)

(* ===================== the claims, the limiter (2) =================== *)
\* C21: last_call only ever increases, also when the clock is set back: each
\* value written to it is larger than the one before, so no two calls of
\* wait() are given the same slot, and last_call is the last slot granted.
C21_LastCallIncreases ==
    min_interval > 0 =>
        /\ \A k \in DOMAIN slots : slots[k] > (IF k = 1 THEN 0 ELSE slots[k - 1])
        /\ \A j \in DOMAIN slots : \A k \in DOMAIN slots : j # k => slots[j] # slots[k]
        /\ last_call = (IF slots = <<>> THEN 0 ELSE slots[Len(slots)])

\* C21's case: the clock has been set back between two reservations, the
\* second is made at an earlier time than the first
C21_Witness ==
    /\ workers = 2
    /\ Len(slots) = 2
    /\ wpc[1] \in {"sleeping", "request"}
    /\ wpc[2] \in {"sleeping", "request"}
    /\ now[2] < now[1]
    /\ wtask[1] = 1

\* C22: the lock is held by a thread exactly while it is in the with block
\* of wait(); a thread that sleeps for its slot does not hold it, so a thread
\* that calls wait() meanwhile can take the lock and reserve.
C22_NoSleepUnderLock ==
    /\ lock \in {0} \cup Workers
    /\ \A w \in Workers :
         /\ lock = w <=> wpc[w] = "locked"
         /\ wpc[w] = "sleeping" => lock # w
         /\ \A v \in Workers :
              (wpc[w] = "sleeping" /\ wpc[v] = "wait" /\ lock = 0)
                  => ENABLED AcquireLock(v)

\* C22's case: a thread has reserved the next slot and sleeps while another
\* thread is still asleep for its own
C22_Witness ==
    /\ workers = 2
    /\ wpc[1] = "sleeping"
    /\ wpc[2] = "sleeping"
    /\ ~Awake(1)
    /\ ~Awake(2)
    /\ now[1] + sleep_time[1] # now[2] + sleep_time[2]

RECURSIVE SumOf(_)
SumOf(counters) ==
    IF counters = <<>> THEN 0 ELSE Head(counters) + SumOf(Tail(counters))

\* the threads that have left wait() with a slot and not yet sent the request
Reserved == {w \in Workers : wpc[w] \in {"sleeping", "request"}}

\* C23: with the limiter enabled every request sent, first try or retry, has
\* its own reservation on the one limiter of the batch: the reservations made
\* are the requests sent plus the requests about to be sent, and the slots are
\* those of one limiter, min_interval apart.
C23_OneReservationPerRequest ==
    min_interval # 0 =>
        /\ Len(slots) = SumOf(requests) + Cardinality(Reserved)
        /\ \A k \in 2..Len(slots) : slots[k] >= slots[k - 1] + min_interval

\* C23's case: two threads, one of them has sent a first try and a retry and
\* the other has sent a request too
C23_Witness ==
    /\ min_interval # 0
    /\ workers = 2
    /\ Len(requests) = 2
    /\ requests[1] = 2
    /\ requests[2] >= 1
    /\ Len(slots) >= 3

(* ===================== the claims, the batch (2) ===================== *)
\* the end of processFile, by its last statement or by an exception
Ended == mpc \in {"done", "crashed"}

\* C24: the header is written first, then one row per outcome as it is
\* consumed, in the order of consumption: at every point the output is the
\* header and one row per future consumed so far, and at the end there is one
\* row per identifier read from the input.
C24_HeaderThenOneRowPerOutcome ==
    mpc # "start" =>
        /\ rows # <<>>
        /\ rows[1] = Header
        /\ Len(rows) = 1 + Cardinality(consumed)
        /\ Tail(rows) = [k \in DOMAIN resultats |-> Row(resultats[k])]
        /\ Ended => Len(rows) = 1 + Len(sirens)

\* what the output holds in every run: the header and the rows of the
\* outcomes that future.result() returned, in that order; all of them at the
\* end when every identifier is well-formed
RowsFollowResultats ==
    mpc # "start" =>
        /\ rows # <<>>
        /\ rows[1] = Header
        /\ Tail(rows) = [k \in DOMAIN resultats |-> Row(resultats[k])]
        /\ Len(resultats) = Cardinality({i \in consumed : fstate[i] = "done"})
        /\ (Ended /\ AllWellFormed) => Len(rows) = 1 + Len(sirens)

\* the pool threads inside a call of hasValidVat, and the identifiers in hand
Busy == {w \in Workers : wpc[w] # "idle"}
Running == {i \in DOMAIN fstate : fstate[i] = "running"}

\* C25: at most `workers` calls of hasValidVat are in progress, a thread has
\* one identifier in hand at a time, and every submitted identifier is taken
\* by one call only: it waits on the queue, then one thread has it, then its
\* future is set, and it never goes back.
C25_AtMostWInProgress ==
    /\ [](/\ Cardinality(Running) <= workers
          /\ Cardinality(Busy) = Cardinality(Running)
          /\ \A w \in Busy : wtask[w] \in Running
          /\ \A w \in Busy : \A v \in Busy : w # v => wtask[w] # wtask[v]
          /\ \A i \in DOMAIN fstate :
               /\ Count(queue, i) = (IF fstate[i] = "pending" THEN 1 ELSE 0)
               /\ Cardinality({w \in Busy : wtask[w] = i})
                      = (IF fstate[i] = "running" THEN 1 ELSE 0))
    /\ [][\A i \in DOMAIN fstate :
            /\ fstate[i] = "running" => fstate'[i] # "pending"
            /\ Finished(i) => fstate'[i] = fstate[i]]_vars

\* C25's case: the pool is full, one thread, one identifier in hand and the
\* next one waiting on the queue
C25_Witness ==
    /\ workers = 1
    /\ Len(sirens) = 2
    /\ Busy = {1}
    /\ queue = <<2>>
    /\ wpc[1] = "evaluate"

CentreGrows(a) ==
    capped_delay(a).num * capped_delay(a + 1).den
        <= capped_delay(a + 1).num * capped_delay(a).den

\* C27 as stated: under every configuration the program accepts, the centre
\* of the jitter range of a retry's sleep is at least the centre of the
\* attempt before.
C27_CentreNonDecreasing ==
    \A w \in Workers : (Asleep(w) /\ attempt[w] > 0) => CentreGrows(attempt[w] - 1)

\* C27, amended: the centre does not decrease from one attempt to the next
\* when initial_delay is not negative and backoff_multiplier is at least 1.
C27_CentreNonDecreasingWhenGrowing ==
    (initial_delay >= 0 /\ backoff_multiplier.num >= backoff_multiplier.den) =>
        \A w \in Workers :
            (Asleep(w) /\ attempt[w] > 0) => CentreGrows(attempt[w] - 1)

\* C27's case: the sleep after the second attempt, its centre above the one
\* of the first sleep and below the ceiling
C27_Witness ==
    \E w \in Workers :
        /\ Asleep(w)
        /\ attempt[w] = 1
        /\ initial_delay > 0
        /\ backoff_multiplier.num > backoff_multiplier.den
        /\ CentreGrows(0)
        /\ capped_delay(1).num < max_delay * capped_delay(1).den
        /\ capped_delay(0).num * capped_delay(1).den
              < capped_delay(1).num * capped_delay(0).den

(* ===================== the claims, the proxy cache =================== *)
\* C28: whatever calls of get_proxies_cached() and invalidate_proxy_cache()
\* and changes of config["use_proxy"] came before, get_proxies_cached()
\* returns what get_proxies() computes now: a filled cache holds that value.
C28_CacheFollowsUseProxy ==
    proxies_initialized => cached_proxies = get_proxies

\* what holds: a filled cache holds what get_proxies() computed for one of
\* the two values of config["use_proxy"], and after invalidate_proxy_cache()
\* the next call computes it anew
CacheHoldsSomeUseProxy ==
    /\ proxies_initialized =>
          \/ cached_proxies = get_proxies
          \/ cached_proxies = NoProxies
          \/ ~use_proxy
    /\ [][(~proxies_initialized /\ proxies_initialized') =>
             cached_proxies' = get_proxies']_vars

(* ===================== the claims, the limiter (3) =================== *)
\* C29: with the limiter enabled and a clock that does not go back, the
\* reserved slot is never more than workers * min_interval ahead of the
\* clock, and no call of wait() computes a longer sleep than that.
C29_ReservationWithinWIntervals ==
    min_interval > 0 =>
        /\ last_call - clock <= workers * min_interval
        /\ \A w \in Workers : sleep_time[w] <= workers * min_interval

\* C29's case: two threads, the second one asleep for its slot while the
\* first one, back in wait() for its retry, reserves a slot two intervals
\* ahead
C29_Witness ==
    /\ min_interval > 0
    /\ workers = 2
    /\ last_call - clock = workers * min_interval
    /\ \E w \in Workers : \E v \in Workers :
         /\ w # v
         /\ wpc[w] = "sleeping" /\ sleep_time[w] = workers * min_interval
         /\ wpc[v] = "sleeping" /\ sleep_time[v] = min_interval

(* ===================== the claims, the retry budget ================== *)
\* C30: with max_retries zero or negative the loop body never runs: for a
\* well-formed identifier hasValidVat reserves no slot, sends no request,
\* sleeps for no backoff, and returns has_vat None.
C30_NoAttemptWithoutBudget ==
    max_retries <= 0 =>
        /\ slots = <<>>
        /\ last_call = 0
        /\ \A w \in Workers : wpc[w] \in {"idle", "derive", "loop"}
        /\ \A i \in DOMAIN fstate :
             /\ requests[i] = 0
             /\ sleeps[i] = 0
             /\ WellFormed(i) => fstate[i] # "raised"
             /\ fstate[i] = "done" => fresult[i] = Outcome(sirens[i], PyNone)

\* C30's case: the limiter is enabled, max_retries is negative, and the call
\* for a well-formed identifier has returned
C30_Witness ==
    /\ max_retries < 0
    /\ min_interval > 0
    /\ Len(sirens) = 1
    /\ WellFormed(1)
    /\ fstate[1] = "done"
    /\ fresult[1].has_vat = PyNone
    /\ rows = <<Header, Row(Outcome(Orange, PyNone))>>

====
